---- MODULE Spec2Model ----
(***************************************************************************)
(* HeadTrack 3D Window (main.js): the head-pose-to-projection pipeline.    *)
(*                                                                         *)
(* JavaScript numbers are modelled as exact rationals [n, d] in lowest     *)
(* terms, with d = 0 standing for +Infinity / -Infinity (what a division   *)
(* by zero yields in JavaScript).  IEEE-754 rounding to 53 bits is not     *)
(* modelled: every statement below about x, y, z is a statement about the  *)
(* exact values of the expressions of the code.                            *)
(***************************************************************************)
EXTENDS Integers, Sequences, FiniteSets, TLC

(***************************************************************************)
(* Numbers                                                                 *)
(***************************************************************************)
Abs(i) == IF i < 0 THEN -i ELSE i

RECURSIVE GCD(_, _)
GCD(a, b) == IF b = 0 THEN a ELSE GCD(b, a % b)

\* the divisor used to reduce a pair; 1 when both are 0
Reduce(a, b) == IF GCD(Abs(a), Abs(b)) = 0 THEN 1 ELSE GCD(Abs(a), Abs(b))

\* the number n/d (d >= 0) in lowest terms
R(n, d) == [n |-> n \div Reduce(n, d), d |-> d \div Reduce(n, d)]

\* a * b, reduced crosswise before multiplying
RatMul(a, b) ==
    LET g1 == Reduce(a.n, b.d)
        g2 == Reduce(b.n, a.d)
    IN  [n |-> (a.n \div g1) * (b.n \div g2), d |-> (a.d \div g2) * (b.d \div g1)]

\* a / b as JavaScript computes it: a finite positive number over 0 is +Infinity
RatDiv(a, b) ==
    RatMul(a, IF b.n < 0 THEN [n |-> -b.d, d |-> -b.n] ELSE [n |-> b.d, d |-> b.n])

\* a + b over the least common denominator; an infinite operand wins
RatAdd(a, b) ==
    IF a.d = 0 THEN a
    ELSE IF b.d = 0 THEN b
    ELSE LET g == GCD(a.d, b.d)
         IN  R(a.n * (b.d \div g) + b.n * (a.d \div g), (a.d \div g) * b.d)

RatNeg(a) == [n |-> -a.n, d |-> a.d]

RatSub(a, b) == RatAdd(a, RatNeg(b))

\* a <= b, also when one of them is infinite (GCD(x, 0) = x)
RatLE(a, b) ==
    LET g == Reduce(a.d, b.d)
    IN  a.n * (b.d \div g) <= b.n * (a.d \div g)

RatLT(a, b) == ~RatLE(b, a)

Math_max(a, b) == IF RatLE(a, b) THEN b ELSE a

Math_min(a, b) == IF RatLE(a, b) THEN a ELSE b

\* the integer square root, by bisection
RECURSIVE ISqrt(_, _, _)
ISqrt(k, lo, hi) ==
    IF lo >= hi THEN lo
    ELSE LET mid == (lo + hi + 1) \div 2
         IN  IF mid * mid <= k THEN ISqrt(k, mid, hi) ELSE ISqrt(k, lo, mid - 1)

\* Math.sqrt, exact on the squares of rationals (the frames of the model
\* have eye separations whose square is the square of a rational)
Math_sqrt(a) ==
    [n |-> ISqrt(a.n, 0, IF a.n < 46340 THEN a.n ELSE 46340),
     d |-> ISqrt(a.d, 0, IF a.d < 46340 THEN a.d ELSE 46340)]

(***************************************************************************)
(* Configuration and constants                                             *)
(***************************************************************************)
IPD_MM == 63

SCREEN_WIDTH_M == R(28, 100)

SCREEN_HEIGHT_M == R(16, 100)

LEFT_EYE_INDEX == 33

RIGHT_EYE_INDEX == 263

\* the status texts the program writes (without the leading check mark and
\* warning sign of the last two)
StatusRequestingWebcam == "Requesting webcam access..."
StatusWebcamFailed == "Failed to initialize webcam"
StatusLoadingMediaPipe == "Loading MediaPipe model..."
StatusMediaPipeFailed == "Failed to initialize MediaPipe"
StatusStarting == "Starting head tracking..."
StatusTracking == "Tracking active - Move your head!"
StatusNoFace == "No face detected"

\* textContent.includes('Tracking'): case-sensitive, so among the texts above
\* only StatusTracking contains it ("Starting head tracking..." does not)
IncludesTracking(text) == text = StatusTracking

(***************************************************************************)
(* Landmark frames: what detectFaceLandmarks hands to the estimator.  Only *)
(* the length and the two eye landmarks are ever read.                     *)
(***************************************************************************)
NullLandmarks == [present |-> FALSE, length |-> 0, points |-> <<>>]

Landmarks(len, lx, ly, rx, ry) ==
    [present |-> TRUE, length |-> len,
     points |-> (LEFT_EYE_INDEX :> [x |-> lx, y |-> ly])
             @@ (RIGHT_EYE_INDEX :> [x |-> rx, y |-> ry])]

\* eyes 0.021 apart, centred
FrameCentered == Landmarks(478, R(979, 2000), R(1, 2), R(1021, 2000), R(1, 2))
\* eyes 0.063 apart, centre (0.6, 0.4)
FrameOffset == Landmarks(478, R(1137, 2000), R(2, 5), R(1263, 2000), R(2, 5))
\* eyes 0.035 apart on a diagonal (0.021, 0.028), centre (0.4, 0.6)
FrameDiagonal == Landmarks(478, R(779, 2000), R(586, 1000), R(821, 2000), R(614, 1000))
\* eyes 0.1 apart at (0.45, 0.5) and (0.55, 0.5)
FrameNear == Landmarks(478, R(45, 100), R(1, 2), R(55, 100), R(1, 2))
\* eyes 0.009 apart, centred
FrameFar == Landmarks(478, R(991, 2000), R(1, 2), R(1009, 2000), R(1, 2))
\* eyes 0.007 apart, centred
FrameFarther == Landmarks(478, R(993, 2000), R(1, 2), R(1007, 2000), R(1, 2))
\* both eye landmarks on the same point (0.6, 0.5)
FrameCoincident == Landmarks(478, R(3, 5), R(1, 2), R(3, 5), R(1, 2))
\* a landmark array shorter than the face mesh
FrameShort == Landmarks(468, R(45, 100), R(1, 2), R(55, 100), R(1, 2))

FullFrames ==
    {FrameCentered, FrameOffset, FrameDiagonal, FrameNear, FrameFar, FrameFarther,
     FrameCoincident}

\* results.faceLandmarks of one detectForVideo call: no face, or one face
DetectorResults ==
    {<<>>, <<FrameCentered>>, <<FrameOffset>>, <<FrameDiagonal>>, <<FrameNear>>,
     <<FrameCoincident>>, <<FrameShort>>}

\* video.videoWidth
VideoWidths == {1, 1280}

(***************************************************************************)
(* Position estimation                                                     *)
(***************************************************************************)
ipdPixels(landmarks) ==
    LET leftEye == landmarks.points[LEFT_EYE_INDEX]
        rightEye == landmarks.points[RIGHT_EYE_INDEX]
        dx == RatSub(rightEye.x, leftEye.x)
        dy == RatSub(rightEye.y, leftEye.y)
    IN  Math_sqrt(RatAdd(RatMul(dx, dx), RatMul(dy, dy)))

ipdRatio(landmarks, videoWidth) ==
    RatDiv(RatMul(ipdPixels(landmarks), R(videoWidth, 1)),
           RatDiv(R(IPD_MM, 1), R(1000, 1)))

\* mutant: the ratio taken the wrong way round
unclampedZInverted(landmarks, videoWidth) ==
    RatDiv(ipdRatio(landmarks, videoWidth), SCREEN_WIDTH_M)

\* SCREEN_WIDTH_M / ipdRatio, before the clamp
unclampedZ(landmarks, videoWidth) ==
    RatDiv(SCREEN_WIDTH_M, ipdRatio(landmarks, videoWidth))

\* mutant: Math.min and Math.max exchanged
ClampDepthSwapped(v) == Math_min(R(2, 10), Math_max(R(20, 10), v))

\* mutant: the upper clamp left out
ClampDepthNoUpper(v) == Math_max(R(2, 10), v)

\* Math.max(0.2, Math.min(2.0, v))
ClampDepth(v) == Math_max(R(2, 10), Math_min(R(20, 10), v))

estimatedZ(landmarks, videoWidth) == ClampDepth(unclampedZ(landmarks, videoWidth))

centerX(landmarks) ==
    RatDiv(RatAdd(landmarks.points[LEFT_EYE_INDEX].x,
                  landmarks.points[RIGHT_EYE_INDEX].x), R(2, 1))

centerY(landmarks) ==
    RatDiv(RatAdd(landmarks.points[LEFT_EYE_INDEX].y,
                  landmarks.points[RIGHT_EYE_INDEX].y), R(2, 1))

\* the raw position {x, y, estimatedZ} of one frame
RawPosition(landmarks, videoWidth) ==
    LET z == estimatedZ(landmarks, videoWidth)
        scale == RatDiv(z, R(5, 10))
    IN  [x |-> RatMul(RatMul(RatSub(centerX(landmarks), R(5, 10)), SCREEN_WIDTH_M), scale),
         y |-> RatMul(RatMul(RatSub(R(5, 10), centerY(landmarks)), SCREEN_HEIGHT_M), scale),
         z |-> z]

\* mutant: the previous value not weighted
SmoothUnweighted(previous, raw) ==
    LET smoothing == R(7, 10)
    IN  RatAdd(previous, RatMul(raw, RatSub(R(1, 1), smoothing)))

\* previous * smoothing + raw * (1 - smoothing), smoothing = 0.7
Smooth(previous, raw) ==
    LET smoothing == R(7, 10)
    IN  RatAdd(RatMul(previous, smoothing), RatMul(raw, RatSub(R(1, 1), smoothing)))

\* mutant: the length check left out
estimateViewerPositionUnguarded(landmarks, position, videoWidth) ==
    IF ~landmarks.present THEN position
    ELSE LET raw == RawPosition(landmarks, videoWidth)
         IN  [x |-> Smooth(position.x, raw.x),
              y |-> Smooth(position.y, raw.y),
              z |-> Smooth(position.z, raw.z)]

estimateViewerPosition(landmarks, position, videoWidth) ==
    IF ~landmarks.present \/ landmarks.length < 478 THEN position
    ELSE LET raw == RawPosition(landmarks, videoWidth)
         IN  [x |-> Smooth(position.x, raw.x),
              y |-> Smooth(position.y, raw.y),
              z |-> Smooth(position.z, raw.z)]

(***************************************************************************)
(* Off-axis projection                                                     *)
(***************************************************************************)
\* mutant: the lateral offset added instead of subtracted
FrustumMirrored(viewerPos) ==
    LET near == R(1, 100)
        halfWidth == RatDiv(SCREEN_WIDTH_M, R(2, 1))
        halfHeight == RatDiv(SCREEN_HEIGHT_M, R(2, 1))
        distance == viewerPos.z
    IN  [left |-> RatDiv(RatMul(RatAdd(RatNeg(halfWidth), viewerPos.x), near), distance),
         right |-> RatDiv(RatMul(RatAdd(halfWidth, viewerPos.x), near), distance),
         bottom |-> RatDiv(RatMul(RatSub(RatNeg(halfHeight), viewerPos.y), near), distance),
         top |-> RatDiv(RatMul(RatSub(halfHeight, viewerPos.y), near), distance),
         near |-> near]

\* the frustum bounds left, right, bottom, top at the near plane
Frustum(viewerPos) ==
    LET near == R(1, 100)
        halfWidth == RatDiv(SCREEN_WIDTH_M, R(2, 1))
        halfHeight == RatDiv(SCREEN_HEIGHT_M, R(2, 1))
        distance == viewerPos.z
    IN  [left |-> RatDiv(RatMul(RatSub(RatNeg(halfWidth), viewerPos.x), near), distance),
         right |-> RatDiv(RatMul(RatSub(halfWidth, viewerPos.x), near), distance),
         bottom |-> RatDiv(RatMul(RatSub(RatNeg(halfHeight), viewerPos.y), near), distance),
         top |-> RatDiv(RatMul(RatSub(halfHeight, viewerPos.y), near), distance),
         near |-> near]

\* The camera after updateCameraProjection(viewerPos).  Its projection matrix
\* is makePerspective of Frustum(viewerPos) and its position is viewerPos, so
\* the state keeps viewerPos, whose z is the distance the bounds were divided by.
updateCameraProjection(viewerPos) == [offAxis |-> TRUE, position |-> viewerPos]

(***************************************************************************)
(* Bounds                                                                  *)
(***************************************************************************)
\* video.currentTime runs over the frame times 0 .. MaxVideoTime
MaxVideoTime == 2

\* consecutive passes without a usable frame are counted up to this
MaxLostRun == 5

(***************************************************************************)
(* State                                                                   *)
(***************************************************************************)
VARIABLES
    faceLandmarker,   \* TRUE once FaceLandmarker.createFromOptions resolved (else null)
    video,            \* the webcam element: videoWidth, currentTime
    lastVideoTime,    \* the frame time last handed to the detector, -1 at first
    isDetecting,
    viewerPosition,   \* {x, y, z}
    camera,           \* what updateCameraProjection last set, "initial" before
    status,           \* the status element's textContent
    webcamReady,      \* init's local: "pending" while awaited, then "true" / "false"
    mediaPipeReady,   \* init's local, likewise
    animating,        \* requestAnimationFrame(animate) is pending
    detections,       \* log: one entry per faceLandmarker.detectForVideo call
    pass,             \* log: the last pass of animate (its locals)
    lostRun,          \* log: consecutive passes without a usable frame
    shortInRun,       \* log: one of them had a frame, shorter than the face mesh
    heldPosition,     \* log: viewerPosition when the current lost run began
    probe             \* inputs and results of the function specifications

vars ==
    <<faceLandmarker, video, lastVideoTime, isDetecting, viewerPosition, camera, status,
      webcamReady, mediaPipeReady, animating, detections, pass, lostRun, shortInRun,
      heldPosition, probe>>

InitialPosition == [x |-> R(0, 1), y |-> R(0, 1), z |-> R(5, 10)]

\* the PerspectiveCamera of initThreeJS at (0, 0, 0.5), no off-axis projection yet
InitialCamera == [offAxis |-> FALSE, position |-> InitialPosition]

NoLocals == [ipdRatio |-> R(0, 1), x |-> R(0, 1), y |-> R(0, 1), estimatedZ |-> R(0, 1)]

NoPass ==
    [ran |-> FALSE, videoTime |-> 0, lastVideoTimeBefore |-> -1, invoked |-> FALSE,
     landmarks |-> NullLandmarks, statusBefore |-> "", positionBefore |-> InitialPosition,
     foundBefore |-> FALSE, locals |-> NoLocals]

NoProbe == [kind |-> "none"]

\* The state when init() first suspends: the module's globals as declared,
\* then updateCalibrationDisplay, initThreeJS and initWebcam up to its await.
PipelineInit ==
    /\ faceLandmarker = FALSE
    /\ video = [videoWidth |-> 0, currentTime |-> 0]
    /\ lastVideoTime = -1
    /\ isDetecting = FALSE
    /\ viewerPosition = InitialPosition
    /\ camera = InitialCamera
    /\ status = StatusRequestingWebcam
    /\ webcamReady = "pending"
    /\ mediaPipeReady = "pending"
    /\ animating = FALSE
    /\ detections = <<>>
    /\ pass = NoPass
    /\ lostRun = 0
    /\ shortInRun = FALSE
    /\ heldPosition = InitialPosition

Init == PipelineInit /\ probe = NoProbe

(***************************************************************************)
(* The frame pipeline                                                      *)
(***************************************************************************)
\* mutant: lastVideoTime never stored
detectFaceLandmarksStale(landmarker, readyState, results) ==
    IF ~landmarker \/ readyState # 4
    THEN [landmarks |-> NullLandmarks, lastVideoTime |-> lastVideoTime, invoked |-> FALSE]
    ELSE IF video.currentTime = lastVideoTime
    THEN [landmarks |-> NullLandmarks, lastVideoTime |-> lastVideoTime, invoked |-> FALSE]
    ELSE [landmarks |-> IF Len(results) > 0 THEN results[1] ELSE NullLandmarks,
          lastVideoTime |-> lastVideoTime, invoked |-> TRUE]

\* detectFaceLandmarks: what it returns, what it leaves in lastVideoTime, and
\* whether it called the detector.  results is what detectForVideo would return.
detectFaceLandmarks(landmarker, readyState, results) ==
    IF ~landmarker \/ readyState # 4
    THEN [landmarks |-> NullLandmarks, lastVideoTime |-> lastVideoTime, invoked |-> FALSE]
    ELSE IF video.currentTime = lastVideoTime
    THEN [landmarks |-> NullLandmarks, lastVideoTime |-> lastVideoTime, invoked |-> FALSE]
    ELSE [landmarks |-> IF Len(results) > 0 THEN results[1] ELSE NullLandmarks,
          lastVideoTime |-> video.currentTime, invoked |-> TRUE]

\* the status text after the pass
TrackingStatus(text, landmarks) ==
    IF landmarks.present
    THEN IF ~IncludesTracking(text) THEN StatusTracking ELSE text
    ELSE IF IncludesTracking(text) THEN StatusNoFace ELSE text

\* a pass whose frame is absent (null) or shorter than the face mesh
Lost(landmarks) == ~landmarks.present \/ landmarks.length < 478

\* the locals of the estimateViewerPosition call of a pass
LocalsOf(landmarks, videoWidth) ==
    IF Lost(landmarks) THEN NoLocals
    ELSE [ipdRatio |-> ipdRatio(landmarks, videoWidth),
          x |-> RawPosition(landmarks, videoWidth).x,
          y |-> RawPosition(landmarks, videoWidth).y,
          estimatedZ |-> RawPosition(landmarks, videoWidth).z]

\* one pass of animate past its isDetecting guard; text is the status it finds
AnimatePass(landmarker, text, readyState, results) ==
    LET d == detectFaceLandmarks(landmarker, readyState, results)
        landmarks == d.landmarks
        newPosition == estimateViewerPosition(landmarks, viewerPosition, video.videoWidth)
        lost == Lost(landmarks)
    IN  /\ lastVideoTime' = d.lastVideoTime
        /\ detections' =
              IF d.invoked
              THEN Append(detections, [time |-> video.currentTime,
                                       lastVideoTime |-> d.lastVideoTime,
                                       faces |-> Len(results)])
              ELSE detections
        /\ viewerPosition' = IF landmarks.present THEN newPosition ELSE viewerPosition
        /\ camera' = IF landmarks.present THEN updateCameraProjection(newPosition) ELSE camera
        /\ status' = TrackingStatus(text, landmarks)
        /\ animating' = TRUE
        /\ pass' = [ran |-> TRUE, videoTime |-> video.currentTime,
                    lastVideoTimeBefore |-> lastVideoTime, invoked |-> d.invoked,
                    landmarks |-> landmarks, statusBefore |-> text,
                    positionBefore |-> viewerPosition,
                    foundBefore |-> (detections # <<>>
                                     /\ detections[Len(detections)].faces > 0),
                    locals |-> LocalsOf(landmarks, video.videoWidth)]
        /\ lostRun' = IF lost THEN (IF lostRun < MaxLostRun THEN lostRun + 1 ELSE lostRun)
                      ELSE 0
        /\ shortInRun' = (lost /\ (landmarks.present \/ (lostRun > 0 /\ shortInRun)))
        /\ heldPosition' = IF lost /\ lostRun > 0 THEN heldPosition
                           ELSE IF lost THEN viewerPosition ELSE viewerPosition'

\* animate, called back by requestAnimationFrame
Animate ==
    /\ animating
    /\ IF ~isDetecting
       THEN UNCHANGED vars
       ELSE /\ \E readyState \in {2, 4}, results \in DetectorResults :
                  AnimatePass(faceLandmarker, status, readyState, results)
            /\ UNCHANGED <<faceLandmarker, video, isDetecting, webcamReady, mediaPipeReady,
                           probe>>

\* the webcam delivers its next frame: video.currentTime moves on
VideoFrame ==
    /\ webcamReady = "true"
    /\ video.currentTime < MaxVideoTime
    /\ video' = [video EXCEPT !.currentTime = @ + 1]
    /\ UNCHANGED <<faceLandmarker, lastVideoTime, isDetecting, viewerPosition, camera,
                   status, webcamReady, mediaPipeReady, animating, detections, pass,
                   lostRun, shortInRun, heldPosition, probe>>

(***************************************************************************)
(* Initialization                                                          *)
(***************************************************************************)
\* init resumes after `await initWebcam()`; on success it runs initMediaPipe
\* up to its first await
InitAfterWebcam(ready, width) ==
    /\ webcamReady' = IF ready THEN "true" ELSE "false"
    /\ video' = IF ready THEN [video EXCEPT !.videoWidth = width] ELSE video
    /\ status' = IF ready THEN StatusLoadingMediaPipe ELSE StatusWebcamFailed
    /\ UNCHANGED <<faceLandmarker, lastVideoTime, isDetecting, viewerPosition, camera,
                   mediaPipeReady, animating, detections, pass, lostRun, shortInRun, heldPosition,
                   probe>>

WebcamSettles ==
    /\ webcamReady = "pending"
    /\ \E ready \in BOOLEAN, width \in VideoWidths : InitAfterWebcam(ready, width)

\* mutant: mediaPipeReady not checked
InitAfterMediaPipeUnchecked(ready, readyState, results) ==
    /\ mediaPipeReady' = IF ready THEN "true" ELSE "false"
    /\ faceLandmarker' = ready
    /\ isDetecting' = TRUE
    /\ AnimatePass(ready, StatusStarting, readyState, results)
    /\ UNCHANGED <<video, webcamReady, probe>>

\* init resumes after `await initMediaPipe()`; on success it sets isDetecting
\* and makes the first call of animate itself
InitAfterMediaPipe(ready, readyState, results) ==
    /\ mediaPipeReady' = IF ready THEN "true" ELSE "false"
    /\ faceLandmarker' = ready
    /\ IF ~ready
       THEN /\ status' = StatusMediaPipeFailed
            /\ UNCHANGED <<lastVideoTime, isDetecting, viewerPosition, camera, animating,
                           detections, pass, lostRun, shortInRun, heldPosition>>
       ELSE /\ isDetecting' = TRUE
            /\ AnimatePass(ready, StatusStarting, readyState, results)
    /\ UNCHANGED <<video, webcamReady, probe>>

MediaPipeSettles ==
    /\ webcamReady = "true"
    /\ mediaPipeReady = "pending"
    /\ \E ready \in BOOLEAN, readyState \in {2, 4}, results \in DetectorResults :
          InitAfterMediaPipe(ready, readyState, results)

Next == WebcamSettles \/ MediaPipeSettles \/ VideoFrame \/ Animate

Spec == Init /\ [][Next]_vars

(***************************************************************************)
(* The depth estimate as a function: two frames at one frame width         *)
(***************************************************************************)
ProbeWidths == {1, 2, 1280}

InitDepth ==
    /\ PipelineInit
    /\ probe \in [kind : {"depth"}, applied : {FALSE}, a : FullFrames, b : FullFrames,
                  videoWidth : ProbeWidths,
                  sa : {R(0, 1)}, sb : {R(0, 1)}, ua : {R(0, 1)}, ub : {R(0, 1)},
                  za : {R(0, 1)}, zb : {R(0, 1)}]

\* the eye separation, SCREEN_WIDTH_M / ipdRatio and estimatedZ of both frames
EstimateDepths ==
    /\ probe.kind = "depth"
    /\ ~probe.applied
    /\ probe' = [probe EXCEPT !.applied = TRUE,
                              !.sa = ipdPixels(probe.a),
                              !.sb = ipdPixels(probe.b),
                              !.ua = unclampedZ(probe.a, probe.videoWidth),
                              !.ub = unclampedZ(probe.b, probe.videoWidth),
                              !.za = estimatedZ(probe.a, probe.videoWidth),
                              !.zb = estimatedZ(probe.b, probe.videoWidth)]
    /\ UNCHANGED <<faceLandmarker, video, lastVideoTime, isDetecting, viewerPosition,
                   camera, status, webcamReady, mediaPipeReady, animating, detections,
                   pass, lostRun, shortInRun, heldPosition>>

SpecDepth == InitDepth /\ [][EstimateDepths]_vars

(***************************************************************************)
(* The frustum as a function: two viewer positions that differ in x        *)
(***************************************************************************)
ProbeXs == {R(-14, 125), R(-1, 100), R(0, 1), R(1, 20), R(14, 125)}
ProbeYs == {R(-1, 25), R(0, 1), R(28, 3125)}
ProbeZs == {R(1, 5), R(1, 2), R(21, 25), R(2, 1)}

NoFrustum == [left |-> R(0, 1), right |-> R(0, 1), bottom |-> R(0, 1), top |-> R(0, 1),
              near |-> R(0, 1)]

InitFrustum ==
    /\ PipelineInit
    /\ probe \in [kind : {"frustum"}, applied : {FALSE}, x1 : ProbeXs, x2 : ProbeXs,
                  y : ProbeYs, z : ProbeZs, f1 : {NoFrustum}, f2 : {NoFrustum}]

ProjectBoth ==
    /\ probe.kind = "frustum"
    /\ ~probe.applied
    /\ probe' = [probe EXCEPT
                    !.applied = TRUE,
                    !.f1 = Frustum([x |-> probe.x1, y |-> probe.y, z |-> probe.z]),
                    !.f2 = Frustum([x |-> probe.x2, y |-> probe.y, z |-> probe.z])]
    /\ UNCHANGED <<faceLandmarker, video, lastVideoTime, isDetecting, viewerPosition,
                   camera, status, webcamReady, mediaPipeReady, animating, detections,
                   pass, lostRun, shortInRun, heldPosition>>

SpecFrustum == InitFrustum /\ [][ProjectBoth]_vars

(***************************************************************************)
(* Properties                                                              *)
(***************************************************************************)
\* v lies between a and b, ends included
Between(a, v, b) == (RatLE(a, v) /\ RatLE(v, b)) \/ (RatLE(b, v) /\ RatLE(v, a))

\* C1: a pass whose landmark frame is absent (null) or has fewer than 478
\* landmarks leaves viewerPosition as it was, and over a whole run of such
\* passes viewerPosition stays what it was when the run began.
C1_LostHoldsPosition ==
    /\ (pass.ran /\ (~pass.landmarks.present \/ pass.landmarks.length < 478))
          => viewerPosition = pass.positionBefore
    /\ lostRun > 0 => viewerPosition = heldPosition

\* C1 witness: five such passes in a row, one of them with a short landmark
\* array, after the position had moved off its initial value.
C1_Witness ==
    /\ lostRun >= 5
    /\ shortInRun
    /\ viewerPosition # InitialPosition
    /\ viewerPosition = heldPosition

\* C2: no frame time is handed to the detector twice, lastVideoTime already
\* holds the frame's time when the detector is called, and a pass that finds
\* video.currentTime equal to lastVideoTime does not call the detector.
C2_DetectorOncePerFrame ==
    /\ \A i, j \in 1..Len(detections) :
          i # j => detections[i].time # detections[j].time
    /\ \A i \in 1..Len(detections) : detections[i].lastVideoTime = detections[i].time
    /\ (pass.ran /\ pass.videoTime = pass.lastVideoTimeBefore) => ~pass.invoked

\* C2 witness: two frames went to the detector and the last pass skipped it
\* because the frame was unchanged.
C2_Witness ==
    /\ Len(detections) >= 2
    /\ pass.ran
    /\ pass.videoTime = pass.lastVideoTimeBefore
    /\ ~pass.invoked

\* C3: after five consecutive passes with absent (null) landmarks the status
\* is "No face detected", whatever the state the five passes started from
\* (stated here for the runs in which the detector ran and never found a face).
C3_FiveAbsentShowNoFace ==
    (/\ lostRun >= 5
     /\ ~shortInRun
     /\ detections # <<>>
     /\ \A i \in 1..Len(detections) : detections[i].faces = 0)
    => status = StatusNoFace

\* C4 (as amended): for a frame of at least 478 landmarks whose two eye
\* landmarks coincide, ipdRatio is exactly 0 (no epsilon guard), the division
\* yields +Infinity, and the clamp makes estimatedZ the maximum depth 2.0.
C4_CoincidentEyesGiveMaxDepth ==
    (/\ pass.ran
     /\ pass.landmarks.present
     /\ pass.landmarks.length >= 478
     /\ pass.landmarks.points[LEFT_EYE_INDEX] = pass.landmarks.points[RIGHT_EYE_INDEX])
    => /\ pass.locals.ipdRatio = R(0, 1)
       /\ pass.locals.estimatedZ = R(20, 10)

\* C4 witness: the last pass estimated from a frame with coincident eyes.
C4_Witness ==
    /\ pass.ran
    /\ pass.landmarks = FrameCoincident
    /\ pass.locals.estimatedZ = R(2, 1)
    /\ RatLT(pass.positionBefore.z, viewerPosition.z)

\* C4 (as claimed): for such a frame estimatedZ is the minimum depth 0.2.
C4_CoincidentEyesGiveMinDepth ==
    (/\ pass.ran
     /\ pass.landmarks.present
     /\ pass.landmarks.length >= 478
     /\ pass.landmarks.points[LEFT_EYE_INDEX] = pass.landmarks.points[RIGHT_EYE_INDEX])
    => pass.locals.estimatedZ = R(2, 10)

\* SCREEN_WIDTH_M / ipdRatio lies inside the clamp bounds
InClampBounds(u) == RatLE(R(2, 10), u) /\ RatLE(u, R(20, 10))

\* C5: at one frame width, a frame with the larger eye separation never gets
\* the larger estimatedZ, and gets a strictly smaller one when both unclamped
\* values lie inside [0.2, 2.0].
C5_DepthMonotone ==
    (probe.kind = "depth" /\ probe.applied /\ RatLT(probe.sa, probe.sb))
    => /\ RatLE(probe.zb, probe.za)
       /\ (InClampBounds(probe.ua) /\ InClampBounds(probe.ub)) => RatLT(probe.zb, probe.za)

\* C5 witness: two separations whose unclamped depths are both inside the bounds.
C5_Witness ==
    /\ probe.kind = "depth"
    /\ probe.applied
    /\ RatLT(probe.sa, probe.sb)
    /\ InClampBounds(probe.ua)
    /\ InClampBounds(probe.ub)
    /\ RatLT(probe.zb, probe.za)

\* C6: after a pass that estimated from a face, each of x, y, z is
\* 0.7 * previous + 0.3 * raw, lies between previous and raw (ends included),
\* and is unchanged when previous equals raw.
C6_SmoothingNeverOvershoots ==
    (pass.ran /\ pass.landmarks.present /\ pass.landmarks.length >= 478)
    => LET before == pass.positionBefore
           mix(p, r) == RatAdd(RatMul(R(7, 10), p), RatMul(R(3, 10), r))
       IN  /\ viewerPosition.x = mix(before.x, pass.locals.x)
           /\ viewerPosition.y = mix(before.y, pass.locals.y)
           /\ viewerPosition.z = mix(before.z, pass.locals.estimatedZ)
           /\ Between(before.x, viewerPosition.x, pass.locals.x)
           /\ Between(before.y, viewerPosition.y, pass.locals.y)
           /\ Between(before.z, viewerPosition.z, pass.locals.estimatedZ)
           /\ before.x = pass.locals.x => viewerPosition.x = before.x
           /\ before.y = pass.locals.y => viewerPosition.y = before.y
           /\ before.z = pass.locals.estimatedZ => viewerPosition.z = before.z

\* C6 witness: a pass where z moved strictly between previous and raw, x moved
\* too, and y stayed because previous and raw were equal.
C6_Witness ==
    /\ pass.ran /\ pass.landmarks.present /\ pass.landmarks.length >= 478
    /\ RatLT(pass.locals.estimatedZ, viewerPosition.z)
    /\ RatLT(viewerPosition.z, pass.positionBefore.z)
    /\ pass.positionBefore.x # pass.locals.x
    /\ pass.positionBefore.x # R(0, 1)
    /\ pass.positionBefore.y = pass.locals.y
    /\ viewerPosition.y = pass.positionBefore.y

\* C7: for one y and one z > 0, the frustum of the larger x has a strictly
\* smaller left and a strictly smaller right, and the same right - left.
C7_WindowShift ==
    (probe.kind = "frustum" /\ probe.applied /\ RatLT(probe.x1, probe.x2))
    => /\ RatLT(probe.f2.left, probe.f1.left)
       /\ RatLT(probe.f2.right, probe.f1.right)
       /\ RatSub(probe.f2.right, probe.f2.left) = RatSub(probe.f1.right, probe.f1.left)

\* C7 witness: two frustums computed for x1 < x2 off the axis.
C7_Witness ==
    /\ probe.kind = "frustum"
    /\ probe.applied
    /\ RatLT(probe.x1, probe.x2)
    /\ probe.y # R(0, 1)
    /\ RatLT(probe.f2.left, probe.f1.left)
    /\ RatLT(R(0, 1), probe.f2.right)

\* C8: a pass that skips the detector because the frame is unchanged, right
\* after a pass in which the detector found a face and the status was
\* "Tracking", leaves the status at "Tracking".
C8_SkippedPassKeepsTracking ==
    (/\ pass.ran
     /\ pass.videoTime = pass.lastVideoTimeBefore
     /\ ~pass.invoked
     /\ pass.foundBefore
     /\ lostRun = 1
     /\ pass.statusBefore = StatusTracking)
    => status = StatusTracking

\* C9: viewerPosition.z always lies in [0.2, 2.0], and the distance the
\* frustum bounds were last divided by is positive and not below near = 0.01.
C9_DepthStaysInRange ==
    /\ RatLE(R(2, 10), viewerPosition.z)
    /\ RatLE(viewerPosition.z, R(20, 10))
    /\ camera.offAxis => /\ RatLT(R(0, 1), camera.position.z)
                         /\ RatLE(R(1, 100), camera.position.z)
                         /\ RatLE(R(2, 10), camera.position.z)

\* C9 witness: after some lost passes, the projection was set from a position
\* whose z had been pulled below the initial 0.5 by a frame clamped to 0.2.
C9_Witness ==
    /\ camera.offAxis
    /\ pass.ran
    /\ pass.locals.estimatedZ = R(2, 10)
    /\ RatLT(camera.position.z, R(4, 10))
    /\ Len(detections) >= 3

\* C10: until initWebcam and initMediaPipe have both succeeded, isDetecting is
\* false, the animation loop is not started, the detector has not been called
\* and viewerPosition, lastVideoTime and the camera are as initialised; once
\* either has failed this stays so.
C10_PipelineGatedOnReadiness ==
    (webcamReady # "true" \/ mediaPipeReady # "true")
    => /\ ~isDetecting
       /\ ~animating
       /\ ~faceLandmarker
       /\ detections = <<>>
       /\ ~pass.ran
       /\ viewerPosition = InitialPosition
       /\ lastVideoTime = -1
       /\ camera = InitialCamera

\* C10 witness: the webcam came up and delivered frames, MediaPipe failed.
C10_Witness ==
    /\ webcamReady = "true"
    /\ mediaPipeReady = "false"
    /\ video.currentTime > 0
    /\ status = StatusMediaPipeFailed

====
